---- MODULE Spec2Model ----
(***************************************************************************)
(* NEOBOOK social data store: the three StorageService variants            *)
(*   "LocalSync"  - src/unnamed/part_000 (synchronous localStorage)        *)
(*   "LocalAsync" - src/unnamed/part_001 (promise-based localStorage)      *)
(*   "Firestore"  - src/services/storage.ts (remote document store)        *)
(* The backend is fixed by Init; every operation is modelled once per      *)
(* backend, from that backend's code.                                      *)
(***************************************************************************)
EXTENDS Integers, Sequences, FiniteSets, TLC

VARIABLES backend, users, accounts, issued, posts, messages, session, now, calls, held, subs

vars == <<backend, users, accounts, issued, posts, messages, session, now, calls, held, subs>>

----------------------------------------------------------------------------
(* Bounds of the model *)

MaxList == 2
MaxMsgs == 2
MaxClock == 1

Backends == {"LocalSync", "LocalAsync", "Firestore"}

\* Handles (User.userId) a caller may type.
Handles == {"admin", "neo_user"}

\* An id that is the id of no user, for calls with a dangling argument.
NoId == 0

\* The ids signups hand out (crypto.randomUUID(), `user-${Date.now()}`, the
\* Firebase uid), in the order they are handed out.
UserIds == {1, 2, 3}

\* The users a run that starts from construction signs up.
Pair == {1, 2}

----------------------------------------------------------------------------
(* Array helpers (JavaScript Array semantics) *)

\* Array.prototype.includes
Includes(arr, x) == \E i \in 1..Len(arr) : arr[i] = x

\* Array.prototype.filter(id => id !== x)
RECURSIVE FilterOut(_, _)
FilterOut(arr, x) ==
    IF arr = <<>> THEN <<>>
    ELSE IF Head(arr) = x THEN FilterOut(Tail(arr), x)
         ELSE <<Head(arr)>> \o FilterOut(Tail(arr), x)

\* Array.prototype.findIndex / find by id: index of the first match, 0 if none
FindIndexById(us, uid) ==
    IF \E i \in 1..Len(us) : us[i].id = uid
    THEN CHOOSE i \in 1..Len(us) : us[i].id = uid /\ \A j \in 1..(i-1) : us[j].id # uid
    ELSE 0

\* users.find(u => u.userId === customId): index of the first match, 0 if none
FindIndexByCustomId(us, h) ==
    IF \E i \in 1..Len(us) : us[i].userId = h
    THEN CHOOSE i \in 1..Len(us) : us[i].userId = h /\ \A j \in 1..(i-1) : us[j].userId # h
    ELSE 0

Range(arr) == {arr[i] : i \in 1..Len(arr)}

----------------------------------------------------------------------------
(* Records *)

\* A User record (the fields the store logic reads or writes).
NewUser(uid, h) == [id |-> uid, userId |-> h, friends |-> <<>>, friendRequests |-> <<>>]

\* What a lookup that finds nothing yields (undefined).
Undefined == [id |-> NoId]

\* The session when nobody is logged in (localStorage key absent / auth signed out).
NoSession == [id |-> NoId]

\* Helper to convert custom User ID to Email for Firebase Auth.
toLowerCase(h) == IF h = "Neo_User" THEN "neo_user" ELSE h
getEmailFromId(h) == <<toLowerCase(h), "@neobook.app">>

\* The announcement addressed the other way round.
SysMessage_Reversed(requesterId, userId, timestamp) ==
    [id |-> <<"sys", timestamp>>, fromId |-> userId, toId |-> requesterId,
     content |-> "You are now friends", timestamp |-> timestamp, read |-> FALSE]

\* The system message acceptFriendRequest synthesizes.
SysMessage(requesterId, userId, timestamp) ==
    [id |-> <<"sys", timestamp>>, fromId |-> requesterId, toId |-> userId,
     content |-> "You are now friends", timestamp |-> timestamp, read |-> FALSE]

\* The id a signup gives the new user (crypto.randomUUID(), `user-${Date.now()}`,
\* the Firebase uid): an id no user was given before.
FreshId == issued + 1

\* sharedFromId of a post that is no share (the field is absent).
NoPost == <<"none", 0>>

\* A Post record as Feed builds it: id `post-${Date.now()}` or
\* `post-share-${Date.now()}`, no likes, no comments. targetUserIds is <<>>
\* when the field is absent (handleSharePost never stores an empty array).
NewPost(tag, authorId, t, sharedFromId, targetUserIds) ==
    [id |-> <<tag, t>>, authorId |-> authorId, likes |-> <<>>, comments |-> <<>>,
     createdAt |-> t, sharedFromId |-> sharedFromId, targetUserIds |-> targetUserIds]

----------------------------------------------------------------------------
(* seedData / construction *)

SeedUsers == <<NewUser(1, "admin"), NewUser(2, "neo_user")>>

SeedPosts == <<[id |-> <<"seed", 1>>, authorId |-> 1, likes |-> <<>>, comments |-> <<>>,
                createdAt |-> 0, sharedFromId |-> NoPost, targetUserIds |-> <<>>]>>

Init ==
    /\ backend \in Backends
    /\ users = IF backend = "LocalSync" THEN SeedUsers ELSE <<>>
    /\ accounts = <<>>
    /\ issued = IF backend = "LocalSync" THEN Len(SeedUsers) ELSE 0
    /\ posts = IF backend = "LocalSync" THEN SeedPosts ELSE <<>>
    /\ messages = <<>>
    /\ session = NoSession
    /\ now = 0
    /\ calls = <<>>
    /\ held = <<>>
    /\ subs = <<>>

----------------------------------------------------------------------------
(* sendFriendRequest: the outcome of one call, per backend.                *)
(* Each operator gives [users |-> the users collection after the call,     *)
(* success, message |-> what the caller is told].                          *)

Outcome(us, success, message) == [users |-> us, success |-> success, message |-> message]

\* A send that also records the target at the sender.
sendFriendRequest_BothSides(us, fromId, toCustomId) ==
    LET t == FindIndexByCustomId(us, toCustomId)
        s == FindIndexById(us, fromId)
    IN  IF t = 0 THEN Outcome(us, FALSE, "User ID not found.")
        ELSE IF s = 0 THEN Outcome(us, FALSE, "Session error.")
        ELSE IF us[t].id = fromId THEN Outcome(us, FALSE, "Cannot add yourself.")
        ELSE IF Includes(us[s].friends, us[t].id) THEN Outcome(us, FALSE, "Already friends.")
        ELSE IF Includes(us[t].friendRequests, fromId)
             THEN Outcome(us, FALSE, "Request already sent.")
        ELSE Outcome([us EXCEPT ![t].friendRequests = Append(@, fromId),
                                ![s].friendRequests = Append(@, us[t].id)],
                     TRUE, "Friend request sent!")

\* part_000: one synchronous read-check-push-save over the whole array.
sendFriendRequest_LocalSync(us, fromId, toCustomId) ==
    LET t == FindIndexByCustomId(us, toCustomId)
        s == FindIndexById(us, fromId)
    IN  IF t = 0 THEN Outcome(us, FALSE, "User ID not found.")
        ELSE IF s = 0 THEN Outcome(us, FALSE, "Session error.")
        ELSE IF us[t].id = fromId THEN Outcome(us, FALSE, "Cannot add yourself.")
        ELSE IF Includes(us[s].friends, us[t].id) THEN Outcome(us, FALSE, "Already friends.")
        ELSE IF Includes(us[t].friendRequests, fromId)
             THEN Outcome(us, FALSE, "Request already sent.")
        ELSE Outcome([us EXCEPT ![t].friendRequests = Append(@, fromId)],
                     TRUE, "Friend request sent!")

\* part_001: after the delay, one synchronous read-check-push-save.
sendFriendRequest_LocalAsync(us, fromId, toCustomId) ==
    LET s == FindIndexById(us, fromId)
        t == FindIndexByCustomId(us, toCustomId)
    IN  IF s = 0 \/ t = 0 THEN Outcome(us, FALSE, "User not found")
        ELSE IF us[s].id = us[t].id THEN Outcome(us, FALSE, "Can't add yourself")
        ELSE IF Includes(us[s].friends, us[t].id) THEN Outcome(us, FALSE, "Already friends")
        ELSE IF Includes(us[t].friendRequests, fromId)
             THEN Outcome(us, FALSE, "Request already sent")
        ELSE LET targetIdx == FindIndexById(us, us[t].id)
                 target == [us[t] EXCEPT !.friendRequests = Append(@, fromId)]
             IN  Outcome([us EXCEPT ![targetIdx] = target], TRUE, "Request sent!")

\* Firestore field transforms
arrayUnion(arr, x) == IF Includes(arr, x) THEN arr ELSE Append(arr, x)
arrayRemove(arr, x) == FilterOut(arr, x)

\* storage.ts findUserByCustomId: where('userId', '==', customId), docs[0]
findUserByCustomId_Firestore(us, customId) == FindIndexByCustomId(us, customId)

\* storage.ts sendFriendRequest, the checks made on the target it read
\* (targetUser is the record read by findUserByCustomId, Undefined when the query is empty)
sendCheckTarget_Firestore(targetUser, fromId) ==
    IF targetUser = Undefined THEN "User ID not found."
    ELSE IF targetUser.id = fromId THEN "Cannot add yourself."
    ELSE "ok"

\* The sender checks without the look at the target's pending requests.
sendCheckSender_NoPendingCheck(sender, targetUser, fromId) ==
    IF sender = Undefined THEN "Error sending request."
    ELSE IF Includes(sender.friends, targetUser.id) THEN "Already friends."
    ELSE "ok"

\* storage.ts sendFriendRequest, the checks made once the sender is read
\* (sender is senderDoc.data(), Undefined when the document does not exist: reading
\* sender.friends then throws and the catch reports the error)
sendCheckSender_Firestore(sender, targetUser, fromId) ==
    IF sender = Undefined THEN "Error sending request."
    ELSE IF Includes(sender.friends, targetUser.id) THEN "Already friends."
    ELSE IF Includes(targetUser.friendRequests, fromId) THEN "Request already sent."
    ELSE "ok"

\* A write of the whole array computed from the target read earlier.
sendWrite_WholeArray(us, targetUser, fromId) ==
    LET i == FindIndexById(us, targetUser.id)
    IN  IF i = 0 THEN Outcome(us, FALSE, "Error sending request.")
        ELSE Outcome([us EXCEPT ![i].friendRequests = Append(targetUser.friendRequests, fromId)],
                     TRUE, "Friend request sent!")

\* storage.ts sendFriendRequest: updateDoc(doc(db, 'users', targetUser.id),
\* {friendRequests: arrayUnion(fromId)})
sendWrite_Firestore(us, targetUser, fromId) ==
    LET i == FindIndexById(us, targetUser.id)
    IN  IF i = 0 THEN Outcome(us, FALSE, "Error sending request.")
        ELSE Outcome([us EXCEPT ![i].friendRequests = arrayUnion(@, fromId)],
                     TRUE, "Friend request sent!")

\* getDoc(doc(db, 'users', uid)).data()
DocData(us, uid) == IF FindIndexById(us, uid) = 0 THEN Undefined ELSE us[FindIndexById(us, uid)]

\* storage.ts sendFriendRequest run without interruption
sendFriendRequest_Firestore(us, fromId, toCustomId) ==
    LET t == findUserByCustomId_Firestore(us, toCustomId)
        targetUser == IF t = 0 THEN Undefined ELSE us[t]
        c1 == sendCheckTarget_Firestore(targetUser, fromId)
        c2 == sendCheckSender_Firestore(DocData(us, fromId), targetUser, fromId)
    IN  IF c1 # "ok" THEN Outcome(us, FALSE, c1)
        ELSE IF c2 # "ok" THEN Outcome(us, FALSE, c2)
        ELSE sendWrite_Firestore(us, targetUser, fromId)

sendFriendRequest(us, fromId, toCustomId) ==
    CASE backend = "LocalSync" -> sendFriendRequest_LocalSync(us, fromId, toCustomId)
      [] backend = "LocalAsync" -> sendFriendRequest_LocalAsync(us, fromId, toCustomId)
      [] backend = "Firestore" -> sendFriendRequest_Firestore(us, fromId, toCustomId)

----------------------------------------------------------------------------
(* acceptFriendRequest: the stores after one call, per backend.            *)

Stores(us, ms, ses) == [users |-> us, messages |-> ms, session |-> ses]

\* part_000: both pushes and the filter on the array read once, one saveUsers,
\* then the message push and the session refresh. user and requester are
\* entries of the same array (the same entry when userId = requesterId).
acceptFriendRequest_LocalSync(us, ms, ses, userId, requesterId, timestamp) ==
    LET u == FindIndexById(us, userId)
        r == FindIndexById(us, requesterId)
    IN  IF u = 0 \/ r = 0 THEN Stores(us, ms, ses)
        ELSE LET us1 == [us EXCEPT ![u].friends = Append(@, requesterId)]
                 us2 == [us1 EXCEPT ![r].friends = Append(@, userId)]
                 us3 == [us2 EXCEPT ![u].friendRequests = FilterOut(@, requesterId)]
             IN  Stores(us3,
                        Append(ms, SysMessage(requesterId, userId, timestamp)),
                        IF ses # NoSession /\ ses.id = userId THEN us3[u] ELSE ses)

\* part_001: after the delay, pushes guarded by includes, one setStored of the
\* users, then sendMessage of the system message.
acceptFriendRequest_LocalAsync(us, ms, ses, userId, requesterId, timestamp) ==
    LET userIdx == FindIndexById(us, userId)
        reqIdx == FindIndexById(us, requesterId)
    IN  IF userIdx = 0 \/ reqIdx = 0 THEN Stores(us, ms, ses)
        ELSE LET us1 == [us EXCEPT ![userIdx].friends = arrayUnion(@, requesterId)]
                 us2 == [us1 EXCEPT ![reqIdx].friends = arrayUnion(@, userId)]
                 us3 == [us2 EXCEPT ![userIdx].friendRequests = FilterOut(@, requesterId)]
             IN  Stores(us3, Append(ms, SysMessage(requesterId, userId, timestamp)), ses)

\* storage.ts: updateDoc(userRef, {friends: arrayUnion(requesterId),
\* friendRequests: arrayRemove(requesterId)}); no change when the document is missing
acceptWriteUser_Firestore(us, userId, requesterId) ==
    LET i == FindIndexById(us, userId)
    IN  IF i = 0 THEN us
        ELSE [us EXCEPT ![i].friends = arrayUnion(@, requesterId),
                        ![i].friendRequests = arrayRemove(@, requesterId)]

\* The requester's document left as it is.
acceptWriteRequester_Dropped(us, userId, requesterId) == us

\* storage.ts: updateDoc(requesterRef, {friends: arrayUnion(userId)})
acceptWriteRequester_Firestore(us, userId, requesterId) ==
    LET i == FindIndexById(us, requesterId)
    IN  IF i = 0 THEN us ELSE [us EXCEPT ![i].friends = arrayUnion(@, userId)]

\* updateDoc rejects (NOT_FOUND) when the document does not exist
DocExists(us, uid) == FindIndexById(us, uid) # 0

\* storage.ts acceptFriendRequest run without interruption: the first rejected
\* await jumps to the catch, which only logs.
acceptFriendRequest_Firestore(us, ms, ses, userId, requesterId, timestamp) ==
    IF ~DocExists(us, userId) THEN Stores(us, ms, ses)
    ELSE LET us1 == acceptWriteUser_Firestore(us, userId, requesterId)
         IN  IF ~DocExists(us1, requesterId) THEN Stores(us1, ms, ses)
             ELSE Stores(acceptWriteRequester_Firestore(us1, userId, requesterId),
                         Append(ms, SysMessage(requesterId, userId, timestamp)), ses)

acceptFriendRequest(us, ms, ses, userId, requesterId, timestamp) ==
    CASE backend = "LocalSync" ->
             acceptFriendRequest_LocalSync(us, ms, ses, userId, requesterId, timestamp)
      [] backend = "LocalAsync" ->
             acceptFriendRequest_LocalAsync(us, ms, ses, userId, requesterId, timestamp)
      [] backend = "Firestore" ->
             acceptFriendRequest_Firestore(us, ms, ses, userId, requesterId, timestamp)

----------------------------------------------------------------------------
(* Identity operations *)

\* part_000 createUser: the handle must be free, then push and save
createUser_LocalSync(us, user) ==
    IF \E i \in 1..Len(us) : us[i].userId = user.userId
    THEN Outcome(us, FALSE, "User ID already exists. Please choose a unique ID.")
    ELSE Outcome(Append(us, user), TRUE, "")

\* part_001 signup: the handle must be free, then push and setStored
signup_LocalAsync(us, user) ==
    IF FindIndexByCustomId(us, user.userId) # 0
    THEN Outcome(us, FALSE, "User ID already taken")
    ELSE Outcome(Append(us, user), TRUE, "")

\* createUserWithEmailAndPassword: rejects an email that has an account
EmailInUse(acc, email) == \E i \in 1..Len(acc) : acc[i].email = email

\* checkIdAvailability(userId) as Auth.handleSubmit calls it before signup
\* (no currentUid): the handle is free when no stored user carries it
checkIdAvailability(us, userId) == FindIndexByCustomId(us, userId) = 0

\* part_000 updateUser: the handle check against the other users
HandleTakenByOther(us, updatedUser) ==
    \E i \in 1..Len(us) : us[i].userId = updatedUser.userId /\ us[i].id # updatedUser.id

\* users.map(u => u.id === updatedUser.id ? updatedUser : u)
ReplaceById(us, updatedUser) ==
    [i \in 1..Len(us) |-> IF us[i].id = updatedUser.id THEN updatedUser ELSE us[i]]

\* part_001 updateUser: users[index] = updatedUser, no handle check
updateUser_LocalAsync(us, updatedUser) ==
    LET index == FindIndexById(us, updatedUser.id)
    IN  IF index # 0 THEN Outcome([us EXCEPT ![index] = updatedUser], TRUE, "")
        ELSE Outcome(us, FALSE, "")

\* storage.ts updateUser: updateDoc(userRef, {...updatedUser}), no handle check
updateUser_Firestore(us, updatedUser) ==
    LET i == FindIndexById(us, updatedUser.id)
    IN  IF i # 0 THEN Outcome([us EXCEPT ![i] = updatedUser], TRUE, "")
        ELSE Outcome(us, FALSE, "")

\* What updateUser leaves behind and returns.
Updated(us, ses, success) == [users |-> us, session |-> ses, success |-> success]

\* An update that leaves the session as it was.
updateUser_SessionKept(us, ses, updatedUser) ==
    IF HandleTakenByOther(us, updatedUser) THEN Updated(us, ses, FALSE)
    ELSE Updated(ReplaceById(us, updatedUser), ses, TRUE)

\* part_000 updateUser: handle check, map, saveUsers, then setCurrentUser(updatedUser)
updateUser_LocalSync(us, ses, updatedUser) ==
    IF HandleTakenByOther(us, updatedUser) THEN Updated(us, ses, FALSE)
    ELSE Updated(ReplaceById(us, updatedUser), updatedUser, TRUE)

updateUser(us, ses, updatedUser) ==
    CASE backend = "LocalSync" -> updateUser_LocalSync(us, ses, updatedUser)
      [] backend = "LocalAsync" ->
             LET o == updateUser_LocalAsync(us, updatedUser)
             IN  Updated(o.users, ses, o.success)
      [] backend = "Firestore" ->
             LET o == updateUser_Firestore(us, updatedUser)
             IN  Updated(o.users, ses, o.success)

----------------------------------------------------------------------------
(* The operations as steps of the program: each is one whole call, run     *)
(* without interruption against a store that accepts every write.          *)

\* Auth.handleSubmit, signup branch, then App.handleLogin / signup of the service
Signup(h) ==
    /\ FreshId \in Pair
    /\ LET newUser == NewUser(FreshId, h)
       IN  CASE backend = "LocalSync" ->
                  LET o == createUser_LocalSync(users, newUser)
                  IN  /\ users' = o.users
                      /\ session' = IF o.success THEN newUser ELSE session
                      /\ accounts' = accounts
             [] backend = "LocalAsync" ->
                  LET o == signup_LocalAsync(users, newUser)
                  IN  /\ users' = o.users
                      /\ session' = IF o.success THEN [id |-> newUser.id] ELSE session
                      /\ accounts' = accounts
             [] backend = "Firestore" ->
                  IF ~checkIdAvailability(users, h) \/ EmailInUse(accounts, getEmailFromId(h))
                  THEN UNCHANGED <<users, session, accounts>>
                  ELSE /\ accounts' = Append(accounts, [uid |-> FreshId,
                                                        email |-> getEmailFromId(h)])
                       /\ users' = Append(users, newUser)
                       /\ session' = [id |-> FreshId]
    /\ issued' = IF Len(users') > Len(users) THEN issued + 1 ELSE issued
    /\ UNCHANGED <<backend, posts, messages, now, calls, held, subs>>

\* Auth.handleSubmit, login branch, then App.handleLogin / login of the service
Login(h) ==
    /\ CASE backend = "LocalSync" ->
              LET i == FindIndexByCustomId(users, h)
              IN  IF i # 0
                  THEN session' = users[i]
                  ELSE session' = session
         [] backend = "LocalAsync" ->
              LET i == FindIndexByCustomId(users, h)
              IN  IF i # 0
                  THEN session' = [id |-> users[i].id]
                  ELSE session' = session
         [] backend = "Firestore" ->
              IF EmailInUse(accounts, getEmailFromId(h))
              THEN LET a == CHOOSE i \in 1..Len(accounts) : accounts[i].email = getEmailFromId(h)
                   IN  session' = [id |-> accounts[a].uid]
              ELSE session' = session
    /\ UNCHANGED <<backend, users, accounts, issued, posts, messages, now, calls, held, subs>>

\* App.handleLogout / logout of the service
Logout ==
    /\ session' = NoSession
    /\ UNCHANGED <<backend, users, accounts, issued, posts, messages, now, calls, held, subs>>

\* Profile.handleSaveProfile: the stored record of uid with a new userId
UpdateUser(uid, h) ==
    /\ DocExists(users, uid)
    /\ LET o == updateUser(users, session, [DocData(users, uid) EXCEPT !.userId = h])
       IN  users' = o.users /\ session' = o.session
    /\ UNCHANGED <<backend, accounts, issued, posts, messages, now, calls, held, subs>>

\* Friends.sendRequest / Profile.handleFriendAction -> sendFriendRequest
SendFriendRequest(fromId, toCustomId) ==
    /\ users' = sendFriendRequest(users, fromId, toCustomId).users
    /\ UNCHANGED <<backend, accounts, issued, posts, messages, session, now, calls, held, subs>>

\* The friends lists stay within the model's list bound.
WithinListBound(us) == \A i \in 1..Len(us) : Len(us[i].friends) <= MaxList

\* Friends.acceptRequest / Profile.handleFriendAction -> acceptFriendRequest
AcceptFriendRequest(userId, requesterId) ==
    /\ Len(messages) < MaxMsgs
    /\ LET o == acceptFriendRequest(users, messages, session, userId, requesterId, now)
       IN  /\ WithinListBound(o.users)
           /\ users' = o.users
           /\ messages' = o.messages
           /\ session' = o.session
    /\ UNCHANGED <<backend, accounts, issued, posts, now, calls, held, subs>>

\* Date.now() advances
Tick ==
    /\ now < MaxClock
    /\ now' = now + 1
    /\ UNCHANGED <<backend, users, accounts, issued, posts, messages, session, calls, held, subs>>

\* The ids a caller can pass: the ids given out so far, and an id of no user.
CallerIds == (1..issued) \cup {NoId}

\* The ids a request can come from: Friends and Profile pass to
\* acceptFriendRequest an id they found in a friendRequests list.
RequesterIds == 1..issued

Next ==
    \/ \E h \in Handles : Signup(h)
    \/ \E h \in Handles : Login(h)
    \/ Logout
    \/ \E uid \in CallerIds, h \in Handles : UpdateUser(uid, h)
    \/ \E fromId \in CallerIds, h \in Handles : SendFriendRequest(fromId, h)
    \/ \E userId \in CallerIds, requesterId \in RequesterIds :
           AcceptFriendRequest(userId, requesterId)
    \/ Tick

Spec == Init /\ [][Next]_vars

----------------------------------------------------------------------------
(* Vocabulary of the properties *)

StoredIds == {users[i].id : i \in 1..Len(users)}

\* b is in the friends list of the stored user a
InFriends(a, b) == DocExists(users, a) /\ Includes(DocData(users, a).friends, b)

\* b has a pending request at the stored user a (b is in a.friendRequests)
InRequests(a, b) == DocExists(users, a) /\ Includes(DocData(users, a).friendRequests, b)

InFriendsAfter(a, b) == DocExists(users', a) /\ Includes(DocData(users', a).friends, b)

SelfMessages == {"Cannot add yourself.", "Can't add yourself"}
NotFoundMessages == {"User ID not found.", "User not found"}
AlreadyFriendsMessages == {"Already friends.", "Already friends"}
AlreadyRequestedMessages == {"Request already sent.", "Request already sent"}
NoSenderMessages == {"Session error.", "User not found", "Error sending request."}

----------------------------------------------------------------------------
(* C1..C8: the friend graph under whole calls *)

C2_FriendsDisjointFromRequests ==
    \A a \in StoredIds : \A b \in UserIds \cup {NoId} : ~(InFriends(a, b) /\ InRequests(a, b))

\* C3: in every reachable state, sendFriendRequest(A, handle of A) fails with
\* the self-reference error and leaves the users collection unchanged, for
\* every stored user A.
C3_SelfRequestRejected ==
    \A i \in 1..Len(users) :
        LET o == sendFriendRequest(users, users[i].id, users[i].userId)
        IN  ~o.success /\ o.message \in SelfMessages /\ o.users = users

\* C4: in every reachable state no user's id is in that user's own friends or
\* own friendRequests.
C4_NoSelfLoop ==
    \A a \in StoredIds : ~InFriends(a, a) /\ ~InRequests(a, a)

\* C5: a step makes requesterId a friend of userId only when requesterId was in
\* userId's friendRequests: a pair of two different users with no pending
\* request in either direction never becomes friends in one step.
C5_FriendsOnlyFromPending ==
    [][\A a \in StoredIds, b \in StoredIds :
          (a # b /\ ~InFriends(a, b) /\ InFriendsAfter(a, b)) =>
              (InRequests(a, b) \/ InRequests(b, a))]_vars

InRequestsAfter(a, b) ==
    DocExists(users', a) /\ Includes(DocData(users', a).friendRequests, b)

TargetOf(toCustomId) == FindIndexByCustomId(users, toCustomId)

Fails(o, kinds) == ~o.success /\ o.users = users /\ o.message \in kinds

----------------------------------------------------------------------------
(* Three signed-up users: the frame of a call *)

HandlesOfTrio == {"admin", "neo_user", "zed"}

TrioUsers == <<NewUser(1, "admin"), NewUser(2, "neo_user"), NewUser(3, "zed")>>

TrioAccounts ==
    [i \in 1..3 |-> [uid |-> i, email |-> getEmailFromId(TrioUsers[i].userId)]]

\* The state every backend is in once three users have signed up (the seeded
\* two and one signup in part_000) and one of them, or nobody, is logged in.
InitTrio ==
    /\ backend \in Backends
    /\ users = TrioUsers
    /\ accounts = IF backend = "Firestore" THEN TrioAccounts ELSE <<>>
    /\ issued = 3
    /\ posts = IF backend = "LocalSync" THEN SeedPosts ELSE <<>>
    /\ messages = <<>>
    /\ session \in {NoSession}
          \cup {IF backend = "LocalSync" THEN TrioUsers[i] ELSE [id |-> i] : i \in 1..3}
    /\ now = 0
    /\ calls = <<>>
    /\ held = <<>>
    /\ subs = <<>>

\* Friends.acceptRequest: the logged-in user accepts (currentUser.id is the
\* first argument of acceptFriendRequest)
AcceptAsCurrentUser(requesterId) ==
    /\ session # NoSession
    /\ AcceptFriendRequest(session.id, requesterId)

NextTrio ==
    \/ \E fromId \in CallerIds, h \in HandlesOfTrio : SendFriendRequest(fromId, h)
    \/ \E requesterId \in RequesterIds : AcceptAsCurrentUser(requesterId)

SpecTrio == InitTrio /\ [][NextTrio]_vars

----------------------------------------------------------------------------
(* Calls in flight: every await of a call is a point where other calls run, *)
(* and a store write may be rejected (quota exceeded, backend error).       *)
(* Client c is the browser of user c; each client has one call at a time.   *)

Clients == {1, 2, 3}

\* Users 1 and 2 address user 3 by its handle; user 3 accepts.
Requesters == {1, 2}
Acceptors == {3}
TargetHandles == {"zed"}

IdleCall == [op |-> "idle", pc |-> "idle", toCustomId |-> "", requesterId |-> NoId,
             targetUser |-> Undefined, success |-> FALSE, message |-> ""]

SendCall(pc, h, targetUser) == [IdleCall EXCEPT !.op = "sendFriendRequest", !.pc = pc,
                                                !.toCustomId = h, !.targetUser = targetUser]

AcceptCall(pc, r) == [IdleCall EXCEPT !.op = "acceptFriendRequest", !.pc = pc,
                                      !.requesterId = r]

Done(call, success, message) ==
    [call EXCEPT !.pc = "done", !.success = success, !.message = message]

InitCalls ==
    /\ backend \in Backends
    /\ users = TrioUsers
    /\ accounts = IF backend = "Firestore" THEN TrioAccounts ELSE <<>>
    /\ issued = 3
    /\ posts = IF backend = "LocalSync" THEN SeedPosts ELSE <<>>
    /\ messages = <<>>
    /\ session = NoSession
    /\ now = 0
    /\ calls = [c \in Clients |-> IdleCall]
    /\ held = <<>>
    /\ subs = <<>>

\* The call is made. part_000 runs it to the end at once: saveUsers' result is
\* dropped, so a rejected write still reports success. part_001 first awaits
\* the delay, storage.ts the query.
BeginSend(c, h) ==
    /\ calls[c].pc = "idle"
    /\ IF backend = "LocalSync"
       THEN \E ok \in BOOLEAN :
              LET o == sendFriendRequest_LocalSync(users, c, h)
              IN  /\ users' = IF ok THEN o.users ELSE users
                  /\ calls' = [calls EXCEPT ![c] = Done(SendCall("done", h, Undefined),
                                                        o.success, o.message)]
       ELSE /\ calls' = [calls EXCEPT ![c] =
                           SendCall(IF backend = "LocalAsync" THEN "delay" ELSE "findTarget",
                                    h, Undefined)]
            /\ users' = users
    /\ UNCHANGED <<backend, accounts, issued, posts, messages, session, now, held, subs>>

\* part_001 after `await delay(300)`: the rest of the call is synchronous;
\* setStored throws when the write is rejected and the promise rejects.
SendAfterDelay(c) ==
    /\ calls[c].op = "sendFriendRequest" /\ calls[c].pc = "delay"
    /\ \E ok \in BOOLEAN :
         LET o == sendFriendRequest_LocalAsync(users, c, calls[c].toCustomId)
         IN  IF o.success /\ ~ok
             THEN /\ users' = users
                  /\ calls' = [calls EXCEPT ![c] = Done(@, FALSE, "Storage full. Please delete some posts or images.")]
             ELSE /\ users' = o.users
                  /\ calls' = [calls EXCEPT ![c] = Done(@, o.success, o.message)]
    /\ UNCHANGED <<backend, accounts, issued, posts, messages, session, now, held, subs>>

\* storage.ts: await findUserByCustomId, then the checks on the target read
SendFindTarget(c) ==
    /\ calls[c].op = "sendFriendRequest" /\ calls[c].pc = "findTarget"
    /\ LET t == findUserByCustomId_Firestore(users, calls[c].toCustomId)
           targetUser == IF t = 0 THEN Undefined ELSE users[t]
           check == sendCheckTarget_Firestore(targetUser, c)
       IN  calls' = [calls EXCEPT ![c] =
                       IF check # "ok" THEN Done(@, FALSE, check)
                       ELSE [@ EXCEPT !.pc = "getSender", !.targetUser = targetUser]]
    /\ UNCHANGED <<backend, users, accounts, issued, posts, messages, session, now, held, subs>>

\* storage.ts: await getDoc(sender), then the checks against the sender just
\* read and the target read earlier
SendGetSender(c) ==
    /\ calls[c].op = "sendFriendRequest" /\ calls[c].pc = "getSender"
    /\ LET check == sendCheckSender_Firestore(DocData(users, c), calls[c].targetUser, c)
       IN  calls' = [calls EXCEPT ![c] =
                       IF check # "ok" THEN Done(@, FALSE, check)
                       ELSE [@ EXCEPT !.pc = "updateDoc"]]
    /\ UNCHANGED <<backend, users, accounts, issued, posts, messages, session, now, held, subs>>

\* storage.ts: await updateDoc(target, {friendRequests: arrayUnion(fromId)});
\* a rejected write lands in the catch
SendUpdateDoc(c) ==
    /\ calls[c].op = "sendFriendRequest" /\ calls[c].pc = "updateDoc"
    /\ \E ok \in BOOLEAN :
         LET o == sendWrite_Firestore(users, calls[c].targetUser, c)
         IN  IF ok
             THEN /\ users' = o.users
                  /\ calls' = [calls EXCEPT ![c] = Done(@, o.success, o.message)]
             ELSE /\ users' = users
                  /\ calls' = [calls EXCEPT ![c] = Done(@, FALSE, "Error sending request.")]
    /\ UNCHANGED <<backend, accounts, issued, posts, messages, session, now, held, subs>>

\* The caller has its answer; the client can make its next call.
Return(c) ==
    /\ calls[c].pc = "done"
    /\ calls' = [calls EXCEPT ![c] = IdleCall]
    /\ UNCHANGED <<backend, users, accounts, issued, posts, messages, session, now, held, subs>>

AcceptsInFlight ==
    Cardinality({c \in Clients : calls[c].op = "acceptFriendRequest" /\ calls[c].pc # "done"})

\* The current user of client c accepts requester r. part_000 runs the call to
\* the end at once; saveUsers and saveMessages report a rejected write by a
\* result nobody reads.
BeginAccept(c, r) ==
    /\ calls[c].pc = "idle"
    /\ Len(messages) + AcceptsInFlight < MaxMsgs
    /\ IF backend = "LocalSync"
       THEN \E okUsers \in BOOLEAN, okMessages \in BOOLEAN :
              LET o == acceptFriendRequest_LocalSync(users, messages, session, c, r, now)
              IN  /\ WithinListBound(o.users)
                  /\ users' = IF okUsers THEN o.users ELSE users
                  /\ messages' = IF okMessages THEN o.messages ELSE messages
                  /\ calls' = [calls EXCEPT ![c] = Done(AcceptCall("done", r), TRUE, "")]
       ELSE /\ calls' = [calls EXCEPT ![c] =
                           AcceptCall(IF backend = "LocalAsync" THEN "delay" ELSE "updateUser", r)]
            /\ UNCHANGED <<users, messages>>
    /\ UNCHANGED <<backend, accounts, issued, posts, session, now, held, subs>>

\* part_001 after `await delay(300)`: synchronous to the end. A rejected
\* setStored throws: of the users, nothing is written; of the messages, the
\* users are already written.
AcceptAfterDelay(c) ==
    /\ calls[c].op = "acceptFriendRequest" /\ calls[c].pc = "delay"
    /\ \E okUsers \in BOOLEAN, okMessages \in BOOLEAN :
         LET o == acceptFriendRequest_LocalAsync(users, messages, session, c,
                                                 calls[c].requesterId, now)
         IN  /\ users' = IF okUsers THEN o.users ELSE users
             /\ messages' = IF okUsers /\ okMessages THEN o.messages ELSE messages
             /\ calls' = [calls EXCEPT ![c] =
                            Done(@, \/ ~DocExists(users, c)
                                    \/ ~DocExists(users, calls[c].requesterId)
                                    \/ okUsers /\ okMessages, "")]
    /\ UNCHANGED <<backend, accounts, issued, posts, session, now, held, subs>>

\* storage.ts: first await updateDoc(userRef, ...). A rejected await lands in
\* the catch, which logs "Error accepting friend:" and lets the promise
\* resolve: the caller is told nothing, as after a call that wrote everything.
AcceptUpdateUser(c) ==
    /\ calls[c].op = "acceptFriendRequest" /\ calls[c].pc = "updateUser"
    /\ \E ok \in BOOLEAN :
         IF ok /\ DocExists(users, c)
         THEN /\ users' = acceptWriteUser_Firestore(users, c, calls[c].requesterId)
              /\ calls' = [calls EXCEPT ![c].pc = "updateRequester"]
         ELSE /\ users' = users
              /\ calls' = [calls EXCEPT ![c] = Done(@, TRUE, "Error accepting friend:")]
    /\ UNCHANGED <<backend, accounts, issued, posts, messages, session, now, held, subs>>

\* storage.ts: second await updateDoc(requesterRef, ...)
AcceptUpdateRequester(c) ==
    /\ calls[c].op = "acceptFriendRequest" /\ calls[c].pc = "updateRequester"
    /\ \E ok \in BOOLEAN :
         IF ok /\ DocExists(users, calls[c].requesterId)
         THEN /\ users' = acceptWriteRequester_Firestore(users, c, calls[c].requesterId)
              /\ calls' = [calls EXCEPT ![c].pc = "addDoc"]
         ELSE /\ users' = users
              /\ calls' = [calls EXCEPT ![c] = Done(@, TRUE, "Error accepting friend:")]
    /\ UNCHANGED <<backend, accounts, issued, posts, messages, session, now, held, subs>>

\* storage.ts: await getDoc(requesterRef) for the name, then
\* await addDoc(collection(db, 'messages'), msg)
AcceptAddDoc(c) ==
    /\ calls[c].op = "acceptFriendRequest" /\ calls[c].pc = "addDoc"
    /\ \E ok \in BOOLEAN :
         IF ok
         THEN /\ messages' = Append(messages, SysMessage(calls[c].requesterId, c, now))
              /\ calls' = [calls EXCEPT ![c] = Done(@, TRUE, "")]
         ELSE /\ messages' = messages
              /\ calls' = [calls EXCEPT ![c] = Done(@, TRUE, "Error accepting friend:")]
    /\ UNCHANGED <<backend, users, accounts, issued, posts, session, now, held, subs>>

NextCalls ==
    \/ \E c \in Requesters, h \in TargetHandles : BeginSend(c, h)
    \/ \E c \in Clients : SendAfterDelay(c)
    \/ \E c \in Clients : SendFindTarget(c)
    \/ \E c \in Clients : SendGetSender(c)
    \/ \E c \in Clients : SendUpdateDoc(c)
    \/ \E c \in Acceptors, r \in Requesters : BeginAccept(c, r)
    \/ \E c \in Clients : AcceptAfterDelay(c)
    \/ \E c \in Clients : AcceptUpdateUser(c)
    \/ \E c \in Clients : AcceptUpdateRequester(c)
    \/ \E c \in Clients : AcceptAddDoc(c)
    \/ \E c \in Clients : Return(c)

SpecCalls == InitCalls /\ [][NextCalls]_vars

----------------------------------------------------------------------------
(* C9, C10: calls in flight *)

\* The call of client c was a sendFriendRequest that has reported success.
SentOk(c) ==
    calls[c].op = "sendFriendRequest" /\ calls[c].pc = "done" /\ calls[c].success

\* C9: in the backends whose calls can overlap (part_001, storage.ts), when
\* sendFriendRequest calls of two different senders X and Y to the same handle
\* have both reported success, whatever the interleaving of their steps, the
\* target's friendRequests holds both X and Y, as long as the target has not
\* made either of them a friend since.
C9_ConcurrentSendsUnion ==
    backend # "LocalSync" =>
        \A x \in Clients, y \in Clients :
            (x # y /\ SentOk(x) /\ SentOk(y) /\ calls[x].toCustomId = calls[y].toCustomId) =>
                LET t == users[TargetOf(calls[x].toCustomId)].id
                IN  (~InFriends(t, x) /\ ~InFriends(t, y)) =>
                        (InRequests(t, x) /\ InRequests(t, y))

\* C9 witness: in storage.ts both senders read the target before either wrote
\* (each call still holds a target with no pending request), both reported
\* success, and the target's friendRequests holds both.
C9_Witness ==
    /\ backend = "Firestore"
    /\ SentOk(1) /\ SentOk(2)
    /\ calls[1].targetUser.id = 3 /\ calls[2].targetUser.id = 3
    /\ calls[1].targetUser.friendRequests = <<>>
    /\ calls[2].targetUser.friendRequests = <<>>
    /\ InRequests(3, 1) /\ InRequests(3, 2)

\* C10: in every state calls in flight and rejected writes can produce, whenever
\* requesterId is in userId's friends, userId is in requesterId's friends.
C10_AcceptAtomic ==
    \A userId \in Acceptors, requesterId \in Requesters :
        InFriends(userId, requesterId) => InFriends(requesterId, userId)

----------------------------------------------------------------------------
(* C11..C14: handles and the session under signup, login and profile update *)

\* Signup, login, logout and profile update from construction, with a handle
\* ("zed") that no seeded user carries.
NextProfile ==
    \/ \E h \in HandlesOfTrio : Signup(h)
    \/ \E h \in HandlesOfTrio : Login(h)
    \/ Logout
    \/ \E uid \in CallerIds, h \in HandlesOfTrio : UpdateUser(uid, h)

SpecProfile == Init /\ [][NextProfile]_vars

\* The record Profile.handleSaveProfile submits for stored user i with handle h.
Submitted(i, h) == [users[i] EXCEPT !.userId = h]

\* The user record the application holds for the session: the stored copy in
\* part_000, the users entry of the stored id in part_001 and storage.ts.
SnapshotOf(ses, us) == IF backend = "LocalSync" THEN ses ELSE DocData(us, ses.id)

\* C11: in every state reached by signups and profile updates no two stored
\* users carry the same handle (userId).
C11_HandlesUnique ==
    \A i \in 1..Len(users), j \in 1..Len(users) :
        i # j => users[i].userId # users[j].userId

\* C12: in every reachable state, updateUser of a stored user succeeds when the
\* submitted handle is the user's own, and fails, leaving users and session
\* unchanged, when another user carries the submitted handle.
C12_UpdateChecksOthers ==
    \A i \in 1..Len(users), h \in HandlesOfTrio :
        LET o == updateUser(users, session, Submitted(i, h))
        IN  /\ h = users[i].userId => o.success
            /\ (\E j \in 1..Len(users) : j # i /\ users[j].userId = h) =>
                   (~o.success /\ o.users = users /\ o.session = session)

\* C13: in every reachable state, updateUser of a record whose id is the id of
\* no stored user reports failure and changes neither users nor the session.
C13_UpdateMissingRejected ==
    \A uid \in UserIds \ StoredIds, h \in HandlesOfTrio :
        LET o == updateUser(users, session, NewUser(uid, h))
        IN  ~o.success /\ o.users = users /\ o.session = session

----------------------------------------------------------------------------
(* Posts: the store, the subscription and the feed *)

\* part_000 createPost: `if (posts.length > 50) posts.pop()`
PostCap == 50

\* storage.ts subscribeToPosts: limit(50)
QueryLimit == 50

\* part_000 createPost: pop the last post when more than PostCap are stored,
\* then unshift
createPost_LocalSync(ps, post) ==
    <<post>> \o (IF Len(ps) > PostCap THEN SubSeq(ps, 1, Len(ps) - 1) ELSE ps)

\* part_001 createPost: unshift, nothing removed
createPost_LocalAsync(ps, post) == <<post>> \o ps

\* storage.ts createPost: setDoc(doc(db, 'posts', post.id), post) replaces the
\* document of that id, or adds it
createPost_Firestore(ps, post) ==
    IF \E i \in 1..Len(ps) : ps[i].id = post.id
    THEN [i \in 1..Len(ps) |-> IF ps[i].id = post.id THEN post ELSE ps[i]]
    ELSE Append(ps, post)

createPost(ps, post) ==
    CASE backend = "LocalSync" -> createPost_LocalSync(ps, post)
      [] backend = "LocalAsync" -> createPost_LocalAsync(ps, post)
      [] backend = "Firestore" -> createPost_Firestore(ps, post)

\* posts.sort((a, b) => b.createdAt - a.createdAt): stable, newest first
\* (post i goes to the place after every post that is newer, or as new and
\* earlier in the list)
SortByCreatedAtDesc(ps) ==
    LET n == Len(ps)
        Placed == {<<Cardinality({j \in 1..n :
                                    \/ ps[j].createdAt > ps[i].createdAt
                                    \/ ps[j].createdAt = ps[i].createdAt /\ j < i}) + 1, i>>
                   : i \in 1..n}
    IN  [k \in 1..n |-> ps[(CHOOSE pl \in Placed : pl[1] = k)[2]]]

\* part_001 subscribeToPosts (poll): every stored post, sorted
subscribeToPosts_LocalAsync(ps) == SortByCreatedAtDesc(ps)

\* storage.ts subscribeToPosts (push): orderBy('createdAt', 'desc'), limit(50)
subscribeToPosts_Firestore(ps) ==
    LET sorted == SortByCreatedAtDesc(ps)
    IN  SubSeq(sorted, 1, IF Len(sorted) < QueryLimit THEN Len(sorted) ELSE QueryLimit)

\* What the posts subscription (part_001, storage.ts subscribeToPosts) or the
\* poll of the synchronous Feed (getPosts) hands to the feed.
subscribeToPosts(ps) ==
    CASE backend = "LocalSync" -> ps
      [] backend = "LocalAsync" -> subscribeToPosts_LocalAsync(ps)
      [] backend = "Firestore" -> subscribeToPosts_Firestore(ps)

\* The filter of the feed: no targets, or the viewer is a target, or the author
IsVisibleTo(p, viewer) ==
    \/ p.targetUserIds = <<>>
    \/ Includes(p.targetUserIds, viewer)
    \/ p.authorId = viewer

\* Feed: visiblePosts = allPosts.filter(...) of what the subscription delivers
Feed(ps, viewer) ==
    LET Shown(p) == IsVisibleTo(p, viewer)
    IN  SelectSeq(subscribeToPosts(ps), Shown)

----------------------------------------------------------------------------
(* C15, C17: a long run of post creations *)

MaxCreates == 52

CapAuthors == {1}

InitCap ==
    /\ backend \in Backends
    /\ users = TrioUsers
    /\ accounts = IF backend = "Firestore" THEN TrioAccounts ELSE <<>>
    /\ issued = 3
    /\ posts = IF backend = "LocalSync" THEN SeedPosts ELSE <<>>
    /\ messages = <<>>
    /\ session = NoSession
    /\ now = 0
    /\ calls = <<>>
    /\ held = <<>>
    /\ subs = <<>>

\* Feed.handleCreatePost one clock instant after the previous creation
CreatePostLater(authorId) ==
    /\ now < MaxCreates
    /\ now' = now + 1
    /\ posts' = createPost(posts, NewPost("post", authorId, now', NoPost, <<>>))
    /\ UNCHANGED <<backend, users, accounts, issued, messages, session, calls, held, subs>>

NextCap == \E authorId \in CapAuthors : CreatePostLater(authorId)

SpecCap == InitCap /\ [][NextCap]_vars

\* C15: once more than PostCap posts have been created (one per clock instant,
\* so `now` counts them), the store holds exactly PostCap posts and they are
\* the PostCap most recently created.
C15_CapAfterOverflow ==
    now > PostCap =>
        /\ Len(posts) = PostCap
        /\ {posts[i].createdAt : i \in 1..Len(posts)} = (now - PostCap + 1)..now

\* C17: for every viewer and every stored post, the post is in the viewer's
\* feed exactly when it has no targets, or the viewer is a target, or the
\* viewer is its author.
C17_FeedIsVisibility ==
    \A viewer \in Clients : \A i \in 1..Len(posts) :
        Includes(Feed(posts, viewer), posts[i]) <=>
            (\/ posts[i].targetUserIds = <<>>
             \/ viewer \in Range(posts[i].targetUserIds)
             \/ viewer = posts[i].authorId)

----------------------------------------------------------------------------
(* C16, C18, C19, C20: the feed of each logged-in user *)

\* Bounds of the feed specifications: stored posts, posts created, comments
\* of one post
MaxPosts == 3
MaxNew == 2
MaxLiked == 1
MaxComments == 1

\* held[v] when v's feed holds no post
Unheld == NewPost("none", NoId, 0, NoPost, <<>>)

\* seedData: the seeded administrator (isAdmin: true); no other code path sets
\* isAdmin
IsAdmin(uid) == backend = "LocalSync" /\ uid = 1

\* posts.find(p => p.id === id): the first post of that id, Unheld if none
FindPost(ps, id) ==
    IF \E i \in 1..Len(ps) : ps[i].id = id
    THEN ps[CHOOSE i \in 1..Len(ps) : ps[i].id = id /\ \A j \in 1..(i - 1) : ps[j].id # id]
    ELSE Unheld

\* likes of the post of that id as a reader finds it
LikesOf(ps, id) == FindPost(subscribeToPosts(ps), id).likes

updatedLikes_AlwaysAppend(post, uid) == Append(post.likes, uid)

\* handleLike: isLiked ? post.likes.filter(id => id !== currentUser.id)
\*                     : [...post.likes, currentUser.id]
updatedLikes(post, uid) ==
    IF Includes(post.likes, uid) THEN FilterOut(post.likes, uid) ELSE Append(post.likes, uid)

\* Feed.handleLike with the copy `post` of the feed; the store afterwards.
\* part_000's Feed maps the stored posts, replacing every post of that id by
\* the updated copy; the asynchronous Feed calls createPost with it.
handleLike(ps, post, uid) ==
    LET updatedPost == [post EXCEPT !.likes = updatedLikes(post, uid)]
    IN  IF backend = "LocalSync"
        THEN [i \in 1..Len(ps) |-> IF ps[i].id = post.id THEN updatedPost ELSE ps[i]]
        ELSE createPost(ps, updatedPost)

NewComment(uid, t) == [authorId |-> uid, createdAt |-> t]

\* Feed.handleComment; the store afterwards. part_000's Feed pushes onto the
\* stored post found by id (nothing when it is gone); the asynchronous Feed
\* calls createPost with the copy of the feed plus the comment.
handleComment(ps, post, uid, t) ==
    IF backend = "LocalSync"
    THEN IF \E i \in 1..Len(ps) : ps[i].id = post.id
         THEN LET postIndex == CHOOSE i \in 1..Len(ps) :
                                  ps[i].id = post.id /\ \A j \in 1..(i - 1) : ps[j].id # post.id
              IN  [ps EXCEPT ![postIndex].comments = Append(@, NewComment(uid, t))]
         ELSE ps
    ELSE createPost(ps, [post EXCEPT !.comments = Append(@, NewComment(uid, t))])

\* AdminPanel.deletePost / StorageService.deletePost: filter by id; the body
\* of storage.ts's deletePost is commented out
deletePost(ps, id) ==
    IF backend = "Firestore" THEN ps
    ELSE LET Kept(p) == p.id # id IN SelectSeq(ps, Kept)

\* loadData() after a write of part_000's Feed: the copy of the feed is read
\* again from the store
Reloaded(ps, viewer, post) ==
    IF backend = "LocalSync" THEN FindPost(Feed(ps, viewer), post.id) ELSE post

\* Profile.loadProfileData: allPosts.filter(p => p.authorId === foundUser.id)
ProfilePosts(ps, profileId) ==
    LET Mine(p) == p.authorId = profileId IN SelectSeq(ps, Mine)

\* The original embedded under a shared post of the feed: part_000's Feed
\* reads it from storage (getPost), the asynchronous Feed looks it up among
\* the posts of the feed.
EmbeddedOriginals(ps, viewer) ==
    LET feed == Feed(ps, viewer)
        from == IF backend = "LocalSync" THEN ps ELSE feed
    IN  {FindPost(from, feed[i].sharedFromId) : i \in 1..Len(feed)} \ {Unheld}

\* Every post some screen shows to the viewer: the feed, the embedded
\* originals, and the profile page of any user (Profile is written against
\* part_000's synchronous getPosts).
ShownTo(ps, viewer) ==
    Range(Feed(ps, viewer)) \cup EmbeddedOriginals(ps, viewer)
        \cup (IF backend = "LocalSync"
              THEN UNION {Range(ProfilePosts(ps, profileId)) : profileId \in Clients}
              ELSE {})

InitFeed ==
    /\ backend \in Backends
    /\ users = TrioUsers
    /\ accounts = IF backend = "Firestore" THEN TrioAccounts ELSE <<>>
    /\ issued = 3
    /\ posts = IF backend = "LocalSync" THEN SeedPosts ELSE <<>>
    /\ messages = <<>>
    /\ session = NoSession
    /\ now = 0
    /\ calls = <<>>
    /\ held = [v \in Clients |-> Unheld]
    /\ subs = <<>>

FeedFrame == UNCHANGED <<backend, users, accounts, issued, messages, session, calls, subs>>

\* Feed.handleCreatePost by viewer v, one clock instant later
CreatePost(v) ==
    /\ Len(posts) < MaxPosts
    /\ now < MaxNew
    /\ now' = now + 1
    /\ posts' = createPost(posts, NewPost("post", v, now', NoPost, <<>>))
    /\ held' = [held EXCEPT ![v] = Reloaded(posts', v, @)]
    /\ FeedFrame

\* Feed.handleSharePost by viewer v of the post its feed holds
SharePost(v, selectedFriends) ==
    /\ held[v] # Unheld
    /\ Len(posts) < MaxPosts
    /\ now < MaxNew
    /\ now' = now + 1
    /\ posts' = createPost(posts, NewPost("post-share", v, now', held[v].id, selectedFriends))
    /\ held' = [held EXCEPT ![v] = Reloaded(posts', v, @)]
    /\ FeedFrame

\* The subscription (or poll) delivers the feed to v, who picks post i of it
Deliver(v, i) ==
    /\ i \in 1..Len(Feed(posts, v))
    /\ held' = [held EXCEPT ![v] = Feed(posts, v)[i]]
    /\ UNCHANGED <<posts, now>>
    /\ FeedFrame

HandleLike(v) ==
    /\ held[v] # Unheld
    /\ posts' = handleLike(posts, held[v], v)
    /\ Len(posts') <= MaxPosts
    /\ held' = [held EXCEPT ![v] =
                   IF backend = "LocalSync" THEN [@ EXCEPT !.likes = updatedLikes(held[v], v)] ELSE @]
    /\ UNCHANGED now
    /\ FeedFrame

HandleComment(v) ==
    /\ held[v] # Unheld
    /\ Len(held[v].comments) < MaxComments
    /\ posts' = handleComment(posts, held[v], v, now)
    /\ Len(posts') <= MaxPosts
    /\ \A i \in 1..Len(posts') : Len(posts'[i].comments) <= MaxComments
    /\ held' = [held EXCEPT ![v] = Reloaded(posts', v, @)]
    /\ UNCHANGED now
    /\ FeedFrame

DeletePost(i) ==
    /\ i \in 1..Len(posts)
    /\ posts' = deletePost(posts, posts[i].id)
    /\ UNCHANGED <<now, held>>
    /\ FeedFrame

\* The users whose feeds act; the third client only looks
Actors == {1, 2}

Commenters == {2}

\* Creating, liking and deleting
NextFeed ==
    \/ \E v \in Actors : CreatePost(v)
    \/ \E v \in Actors, i \in 1..MaxPosts : Deliver(v, i)
    \/ \E v \in Actors : HandleLike(v)
    \/ \E i \in 1..MaxPosts : DeletePost(i)

SpecFeed == InitFeed /\ [][NextFeed]_vars

\* Creating, sharing (to everybody or to the other actor), commenting and
\* deleting
NextShare ==
    \/ \E v \in Actors : CreatePost(v)
    \/ \E v \in Actors, x \in Actors : SharePost(v, IF x = v THEN <<>> ELSE <<x>>)
    \/ \E v \in Actors, i \in 1..MaxPosts : Deliver(v, i)
    \/ \E v \in Commenters : HandleComment(v)
    \/ \E i \in 1..MaxPosts : DeletePost(i)

SpecShare == InitFeed /\ [][NextShare]_vars

\* Liking and deleting while at most MaxLiked posts are created and the store
\* holds at most one entry more
NextLikes ==
    \/ \E v \in Actors : now < MaxLiked /\ CreatePost(v)
    \/ \E v \in Actors, i \in 1..MaxPosts : Deliver(v, i)
    \/ \E v \in Actors : HandleLike(v) /\ Len(posts') <= MaxLiked + 1
    \/ \E i \in 1..MaxPosts : DeletePost(i)

SpecLikes == InitFeed /\ [][NextLikes]_vars

\* C16: in the backends that keep the posts as a stored sequence, the stored
\* sequence is always in recency order: a post nearer the head was created no
\* earlier than any post behind it.
C16_RecencyOrder ==
    backend # "Firestore" =>
        \A i, j \in 1..Len(posts) : i < j => posts[i].createdAt >= posts[j].createdAt

\* C18: no viewer other than an administrator is shown, in the feed, as the
\* embedded original of a shared post or on a profile page, a post that has
\* targets, does not name the viewer among them and is not the viewer's own.
C18_ReadPathsFiltered ==
    \A viewer \in Clients : ~IsAdmin(viewer) =>
        \A p \in ShownTo(posts, viewer) :
            \/ p.targetUserIds = <<>>
            \/ viewer \in Range(p.targetUserIds)
            \/ p.authorId = viewer

\* How often uid occurs in a likes array
Occurrences(likes, uid) == Cardinality({k \in 1..Len(likes) : likes[k] = uid})

C20_LikeKeepsOthers ==
    [][\A v \in Actors :
          (/\ HandleLike(v)
           /\ ~Includes(held[v].likes, v)
           /\ \E i \in 1..Len(posts) : posts[i].id = held[v].id)
          => \A u \in Range(LikesOf(posts, held[v].id)) \cup {v} :
                 Includes(LikesOf(posts', held[v].id), u)]_vars

----------------------------------------------------------------------------
(* C21..C23: comments, shares of shares, writes to a post that is gone *)

IsStored(ps, id) == \E i \in 1..Len(ps) : ps[i].id = id

\* comments of the post of that id as a reader finds it
CommentsOf(ps, id) == FindPost(subscribeToPosts(ps), id).comments

\* Commenting by both actors, liking and deleting while at most MaxLiked posts
\* are created and the store holds at most one entry more
NextTalk ==
    \/ \E v \in Actors : now < MaxLiked /\ CreatePost(v)
    \/ \E v \in Actors, i \in 1..MaxPosts : Deliver(v, i)
    \/ \E v \in Actors : HandleComment(v) /\ Len(posts') <= MaxLiked + 1
    \/ \E v \in Actors : HandleLike(v) /\ Len(posts') <= MaxLiked + 1
    \/ \E i \in 1..MaxPosts : DeletePost(i)

SpecTalk == InitFeed /\ [][NextTalk]_vars

\* C21: a comment on a stored post leaves the post's comments equal to the
\* comments stored before, in their order, followed by the new comment, and
\* leaves the post's likes as they were stored.
C21_CommentAppends ==
    [][\A v \in Actors :
          (HandleComment(v) /\ IsStored(posts, held[v].id))
          => /\ CommentsOf(posts', held[v].id) =
                    Append(CommentsOf(posts, held[v].id), NewComment(v, now))
             /\ LikesOf(posts', held[v].id) = LikesOf(posts, held[v].id)]_vars

\* C22: the post that a stored sharedFromId refers to, when it is stored, is
\* no share itself.
C22_SharesFlattened ==
    \A i \in 1..Len(posts) :
        (posts[i].sharedFromId # NoPost /\ IsStored(posts, posts[i].sharedFromId))
        => FindPost(posts, posts[i].sharedFromId).sharedFromId = NoPost

\* C23: a like or a comment made with the copy of a post that is no longer
\* stored leaves no post of that id in the store.
C23_GonePostStaysGone ==
    [][\A v \in Actors :
          ((HandleLike(v) \/ HandleComment(v)) /\ ~IsStored(posts, held[v].id))
          => ~IsStored(posts', held[v].id)]_vars

----------------------------------------------------------------------------
(* Messages: sending, the conversation view and the last message *)

\* part_000 sendMessage: `if (messages.length > 500) messages.splice(0, 100)`
MsgHighWater == 500
MsgBatch == 100

\* A message id that is the empty string (`!msg.id` is true)
NoMsgId == <<>>

\* A Message as a caller of sendMessage hands it over
NewMessage(id, fromId, toId, timestamp) ==
    [id |-> id, fromId |-> fromId, toId |-> toId, content |-> "text",
     timestamp |-> timestamp, read |-> FALSE]

\* part_000 sendMessage: push, then splice(0, 100) when more than 500
sendMessage_LocalSync(ms, msg) ==
    LET pushed == Append(ms, msg)
    IN  IF Len(pushed) > MsgHighWater
        THEN SubSeq(pushed, MsgBatch + 1, Len(pushed))
        ELSE pushed

\* part_001 sendMessage: an id is generated when missing, then push
sendMessage_LocalAsync(ms, msg, t) ==
    Append(ms, IF msg.id = NoMsgId THEN [msg EXCEPT !.id = <<"msg", t, "random">>] ELSE msg)

\* storage.ts sendMessage: addDoc(collection(db, 'messages'), msg)
sendMessage_Firestore(ms, msg) == Append(ms, msg)

sendMessage(ms, msg, t) ==
    CASE backend = "LocalSync" -> sendMessage_LocalSync(ms, msg)
      [] backend = "LocalAsync" -> sendMessage_LocalAsync(ms, msg, t)
      [] backend = "Firestore" -> sendMessage_Firestore(ms, msg)

\* (m.fromId === userId && m.toId === friendId) ||
\* (m.fromId === friendId && m.toId === userId)
InConversation(m, userId, friendId) ==
    \/ m.fromId = userId /\ m.toId = friendId
    \/ m.fromId = friendId /\ m.toId = userId

FilterConversation(ms, userId, friendId) ==
    LET Mine(m) == InConversation(m, userId, friendId) IN SelectSeq(ms, Mine)

\* sort((a, b) => a.timestamp - b.timestamp): stable, oldest first
RECURSIVE SortByTimestampAsc(_)
SortByTimestampAsc(ms) ==
    IF ms = <<>> THEN <<>>
    ELSE LET rest == SortByTimestampAsc(Tail(ms))
             k == Cardinality({i \in 1..Len(rest) : rest[i].timestamp < Head(ms).timestamp})
         IN  SubSeq(rest, 1, k) \o <<Head(ms)>> \o SubSeq(rest, k + 1, Len(rest))

\* sort((a, b) => b.timestamp - a.timestamp): stable, newest first
RECURSIVE SortByTimestampDesc(_)
SortByTimestampDesc(ms) ==
    IF ms = <<>> THEN <<>>
    ELSE LET rest == SortByTimestampDesc(Tail(ms))
             k == Cardinality({i \in 1..Len(rest) : rest[i].timestamp > Head(ms).timestamp})
         IN  SubSeq(rest, 1, k) \o <<Head(ms)>> \o SubSeq(rest, k + 1, Len(rest))

\* The orders in which query(collection, orderBy('timestamp', 'asc')) can
\* return the documents: ascending by timestamp; documents of equal timestamp
\* come in the order of their document ids, which addDoc generates at random.
OrderedByTimestamp(ms) ==
    LET n == Len(ms)
        Orders == {q \in [1..n -> 1..n] :
                      /\ \A i, j \in 1..n : i # j => q[i] # q[j]
                      /\ \A i, j \in 1..n : i < j => ms[q[i]].timestamp <= ms[q[j]].timestamp}
    IN  {[i \in 1..n |-> ms[q[i]]] : q \in Orders}

\* The lists subscribeToMessages (part_001, storage.ts) or Chat.loadData
\* (part_000) can hand to the chat of userId with friendId
subscribeToMessages(ms, userId, friendId) ==
    IF backend = "Firestore"
    THEN {FilterConversation(all, userId, friendId) : all \in OrderedByTimestamp(ms)}
    ELSE {SortByTimestampAsc(FilterConversation(ms, userId, friendId))}

\* lastMsg is undefined: the conversation is empty
NoMessage == NewMessage(NoMsgId, NoId, NoId, 0)

lastMsg_Oldest(ms, userId, friendId) ==
    LET sorted == SortByTimestampAsc(FilterConversation(ms, userId, friendId))
    IN  IF sorted = <<>> THEN NoMessage ELSE sorted[1]

\* Chat: allMessages.filter(...).sort((a, b) => b.timestamp - a.timestamp)[0]
lastMsg(ms, userId, friendId) ==
    LET sorted == SortByTimestampDesc(FilterConversation(ms, userId, friendId))
    IN  IF sorted = <<>> THEN NoMessage ELSE sorted[1]

----------------------------------------------------------------------------
(* C24: a long run of sends *)

MaxSends == 502

InitSends ==
    /\ backend \in Backends
    /\ users = TrioUsers
    /\ accounts = IF backend = "Firestore" THEN TrioAccounts ELSE <<>>
    /\ issued = 3
    /\ posts = <<>>
    /\ messages = <<>>
    /\ session = NoSession
    /\ now = 0
    /\ calls = <<>>
    /\ held = <<>>
    /\ subs = <<>>

\* Chat.handleSendMessage one clock instant after the previous send
SendMessageLater(fromId, toId) ==
    /\ now < MaxSends
    /\ now' = now + 1
    /\ messages' = sendMessage(messages, NewMessage(<<"msg", now'>>, fromId, toId, now'), now')
    /\ UNCHANGED <<backend, users, accounts, issued, posts, session, calls, held, subs>>

NextSends == \E fromId \in {1}, toId \in {2} : SendMessageLater(fromId, toId)

SpecSends == InitSends /\ [][NextSends]_vars

\* C24: a send never leaves more than MsgHighWater messages stored; a send
\* that would make the count exceed MsgHighWater leaves the stored messages
\* without their MsgBatch oldest and with the new one last; any other send
\* appends and removes nothing.
C24_MessageStoreBounded ==
    [][\A fromId \in {1}, toId \in {2} : SendMessageLater(fromId, toId) =>
          LET pushed == Append(messages, NewMessage(<<"msg", now'>>, fromId, toId, now'))
          IN  /\ Len(messages') <= MsgHighWater
              /\ messages' = IF Len(pushed) > MsgHighWater
                             THEN SubSeq(pushed, MsgBatch + 1, Len(pushed))
                             ELSE pushed]_vars

----------------------------------------------------------------------------
(* C25..C27: the chat *)

MaxChat == 2
MaxStamp == 1

Senders == {1, 2}

\* Ids a caller puts on a message sent at instant t: one, or the empty string
CallerMsgIds(t) == {<<"msg", t>>, NoMsgId}

\* sendMessage with a message of the caller: timestamp is the caller's clock,
\* which need not agree with the order of arrival
SendMessage(fromId, toId, id, timestamp) ==
    /\ fromId # toId
    /\ Len(messages) < MaxChat
    /\ messages' = sendMessage(messages, NewMessage(id, fromId, toId, timestamp), timestamp)
    /\ UNCHANGED <<backend, users, accounts, issued, posts, session, now, calls, held, subs>>

NextChat ==
    \E fromId \in Senders, toId \in Clients, timestamp \in 0..MaxStamp :
        \E id \in CallerMsgIds(timestamp) : SendMessage(fromId, toId, id, timestamp)

SpecChat == InitSends /\ [][NextChat]_vars

\* C25: a send stores the message after all the messages stored before, which
\* it keeps, and the stored message has a non-empty id (the caller's, when the
\* caller gave one).
C25_SendAppendsWithId ==
    [][\A fromId \in Senders, toId \in Clients, timestamp \in 0..MaxStamp :
          \A id \in CallerMsgIds(timestamp) :
              SendMessage(fromId, toId, id, timestamp) =>
                  /\ Len(messages') = Len(messages) + 1
                  /\ SubSeq(messages', 1, Len(messages)) = messages
                  /\ messages'[Len(messages')].id # NoMsgId
                  /\ id # NoMsgId =>
                         messages'[Len(messages')] = NewMessage(id, fromId, toId, timestamp)]_vars

\* The conversation of the unordered pair {a, b}: the stored messages whose
\* endpoints are exactly a and b, oldest first, equal timestamps in the order
\* of insertion
Conversation(ms, a, b) ==
    LET Between(m) == {m.fromId, m.toId} = {a, b}
    IN  SortByTimestampAsc(SelectSeq(ms, Between))

\* C26: every list the conversation subscription can deliver for users a and
\* b is the conversation of {a, b}: the same for (b, a), without any message
\* of a third user, in non-decreasing timestamp order, equal timestamps in
\* insertion order.
C26_ConversationView ==
    \A a, b \in Clients :
        /\ subscribeToMessages(messages, a, b) = {Conversation(messages, a, b)}
        /\ subscribeToMessages(messages, a, b) = subscribeToMessages(messages, b, a)

\* C27: lastMsg of a and b is undefined when no stored message is between a
\* and b; otherwise it is a message between a and b and no message between
\* them has a greater timestamp.
C27_LastMessage ==
    \A a, b \in Clients :
        LET conv == Range(Conversation(messages, a, b))
            last == lastMsg(messages, a, b)
        IN  IF conv = {} THEN last = NoMessage
            ELSE /\ last \in conv
                 /\ \A m \in conv : m.timestamp <= last.timestamp
                 /\ last = SortByTimestampDesc(Conversation(messages, a, b))[1]

\* A conversation whose newer message was stored first, so that the last
\* message is not the last one stored.
C27_Witness ==
    /\ Len(messages) = 2
    /\ InConversation(messages[1], 1, 2)
    /\ InConversation(messages[2], 1, 2)
    /\ messages[1].timestamp > messages[2].timestamp
    /\ lastMsg(messages, 1, 2) = messages[1]

----------------------------------------------------------------------------
(* C28..C30: one subscriber of the posts under the poll and the push strategy *)

\* Writes made after the initial state
MaxWrites == 2

WatchBackends == {"LocalAsync", "Firestore"}

\* The posts created before the subscriber is watched: QueryLimit posts, one
\* per clock instant
Backlog == [n \in 1..QueryLimit |-> NewPost("post", 1, n, NoPost, <<>>)]

\* The store after the backlog: part_001 unshifted each post, storage.ts holds
\* one document per post
BacklogStore_LocalAsync == [i \in 1..QueryLimit |-> Backlog[QueryLimit + 1 - i]]
BacklogStore_Firestore == Backlog

\* The store after further writes, by backend
RECURSIVE StoreAfter_LocalAsync(_, _)
StoreAfter_LocalAsync(ps, writes) ==
    IF writes = <<>> THEN ps
    ELSE StoreAfter_LocalAsync(createPost_LocalAsync(ps, Head(writes)), Tail(writes))

RECURSIVE StoreAfter_Firestore(_, _)
StoreAfter_Firestore(ps, writes) ==
    IF writes = <<>> THEN ps
    ELSE StoreAfter_Firestore(createPost_Firestore(ps, Head(writes)), Tail(writes))

\* subs: log      the confirmed post writes after the backlog, in order
\*       view     the list last handed to the subscriber's callback
\*       pending  push: a snapshot of a change has not been delivered yet
\*       active   the timer runs / the listener is attached
\*       readable poll: the stored item parses
InitWatch ==
    /\ backend \in WatchBackends
    /\ users = TrioUsers
    /\ accounts = IF backend = "Firestore" THEN TrioAccounts ELSE <<>>
    /\ issued = 3
    /\ now = QueryLimit
    /\ posts = IF backend = "Firestore" THEN BacklogStore_Firestore ELSE BacklogStore_LocalAsync
    /\ messages = <<>>
    /\ session = NoSession
    /\ calls = <<>>
    /\ held = <<>>
    /\ subs = [log |-> <<>>, view |-> subscribeToPosts(posts),
               pending |-> FALSE, active |-> TRUE, readable |-> TRUE]

WatchFrame == UNCHANGED <<backend, users, accounts, issued, messages, session, calls, held>>

\* createPost as the store of the subscriber's backend takes it: part_001
\* reads the stored list with getStored, which gives [] when the item does
\* not parse, and writes the list back
Written(post) ==
    /\ Len(subs.log) < MaxWrites
    /\ posts' = IF backend = "LocalAsync" /\ ~subs.readable
                THEN createPost_LocalAsync(<<>>, post)
                ELSE createPost(posts, post)
    /\ subs' = [subs EXCEPT !.log = Append(@, post), !.readable = TRUE,
                            !.pending = (backend = "Firestore")]
    /\ WatchFrame

\* Feed.handleCreatePost by user v, one clock instant later
WriteNew(v) ==
    /\ now' = now + 1
    /\ Written(NewPost("post", v, now', NoPost, <<>>))

\* Feed.handleLike by user v on post i of the list last delivered
WriteLike(v, i) ==
    /\ i \in 1..Len(subs.view)
    /\ UNCHANGED now
    /\ Written([subs.view[i] EXCEPT !.likes = updatedLikes(subs.view[i], v)])

\* part_001: setInterval(load, 2000) fires; load never throws out of getStored
PollTick ==
    /\ backend = "LocalAsync"
    /\ subs.active
    /\ subs' = [subs EXCEPT !.view = IF subs.readable THEN subscribeToPosts(posts) ELSE <<>>]
    /\ UNCHANGED <<posts, now>>
    /\ WatchFrame

\* storage.ts: onSnapshot calls back with the snapshot of the query
Notify ==
    /\ backend = "Firestore"
    /\ subs.active
    /\ subs.pending
    /\ subs' = [subs EXCEPT !.view = subscribeToPosts(posts), !.pending = FALSE]
    /\ UNCHANGED <<posts, now>>
    /\ WatchFrame

\* The stored posts item becomes malformed (JSON.parse throws in getStored)
Corrupt ==
    /\ backend = "LocalAsync"
    /\ subs.readable
    /\ subs' = [subs EXCEPT !.readable = FALSE]
    /\ UNCHANGED <<posts, now>>
    /\ WatchFrame

\* The backend fails the listen: onSnapshot was given no error callback, and
\* a listener that got an error receives no more events
ListenError ==
    /\ backend = "Firestore"
    /\ subs.active
    /\ subs' = [subs EXCEPT !.active = FALSE]
    /\ UNCHANGED <<posts, now>>
    /\ WatchFrame

Likers == {2}

NextWatchOk ==
    \/ \E v \in Actors : WriteNew(v)
    \/ \E v \in Likers, i \in {1, QueryLimit} : WriteLike(v, i)
    \/ PollTick
    \/ Notify

NextWatch ==
    \/ NextWatchOk
    \/ Corrupt
    \/ ListenError

SpecWatch == InitWatch /\ [][NextWatch]_vars

\* No store or backend failure; the timer and the listener are scheduled fairly
SpecWatchFair ==
    InitWatch /\ [][NextWatchOk]_vars /\ WF_vars(PollTick) /\ WF_vars(Notify)

\* The list is in the posts' natural order: createdAt descending
NewestFirst(ps) == \A i, j \in 1..Len(ps) : i < j => ps[i].createdAt >= ps[j].createdAt

\* The list held by the subscriber shows write k as it was written, unless a
\* later write to the same post has replaced it
Reflected(k) ==
    /\ Len(subs.log) >= k
    /\ \/ FindPost(subs.view, subs.log[k].id) = subs.log[k]
       \/ \E j \in (k + 1)..Len(subs.log) : subs.log[j].id = subs.log[k].id

\* C28: with the timer and the listener scheduled fairly and no failure,
\* every list delivered to the subscriber is newest first, and every confirmed
\* post write is eventually shown by the list the subscriber holds.
C28_WritesReflected ==
    /\ [](NewestFirst(subs.view))
    /\ \A k \in 1..MaxWrites : (Len(subs.log) >= k) ~> Reflected(k)

\* C29: for the same backlog and the same log of confirmed post writes, the
\* list the poll strategy delivers from its store is the list the push
\* strategy delivers from its store.
C29_PollEqualsPush ==
    subscribeToPosts_LocalAsync(StoreAfter_LocalAsync(BacklogStore_LocalAsync, subs.log))
        = subscribeToPosts_Firestore(StoreAfter_Firestore(BacklogStore_Firestore, subs.log))

\* C30: a failed tick or notification (the stored item does not parse, the
\* backend fails the listen) leaves the subscription active.
C30_SubscriptionSurvives ==
    [][(Corrupt \/ ListenError \/ (PollTick /\ ~subs.readable)) => subs'.active]_vars

----------------------------------------------------------------------------
(* C31: a component, its posts subscription and its teardown *)

\* The components that call subscribeToPosts: Feed, and the AdminPanel of the
\* asynchronous service
Subscribers == {"Feed", "AdminPanel"}

\* What React holds as the effect's cleanup. Feed's effect returns
\* `() => unsubscribe()`. AdminPanel's effect calls the async `load()` and
\* returns nothing: load's `return unsub` resolves a promise nobody reads.
CleanupCancels(component) == component = "Feed"

\* subs: component the component that subscribed
\*       mounted   the component has not been torn down
\*       active    the timer runs / the listener is attached
\*       pending   push: a snapshot of a change has not been delivered yet
\*       view      the list last handed to the callback
InitMount ==
    /\ backend \in WatchBackends
    /\ users = TrioUsers
    /\ accounts = IF backend = "Firestore" THEN TrioAccounts ELSE <<>>
    /\ issued = 3
    /\ now = 0
    /\ posts = <<>>
    /\ messages = <<>>
    /\ session = NoSession
    /\ calls = <<>>
    /\ held = <<>>
    /\ \E component \in Subscribers :
         subs = [component |-> component, mounted |-> TRUE, active |-> TRUE,
                 pending |-> FALSE, view |-> subscribeToPosts(posts)]

\* A user publishes a post (Feed.handleCreatePost -> createPost)
PostPublished(v) ==
    /\ now < MaxNew
    /\ now' = now + 1
    /\ posts' = createPost(posts, NewPost("post", v, now', NoPost, <<>>))
    /\ subs' = [subs EXCEPT !.pending = (backend = "Firestore" /\ subs.active)]
    /\ WatchFrame

\* part_001: the interval set by subscribeToPosts fires and load runs
TimerFires ==
    /\ backend = "LocalAsync"
    /\ subs.active
    /\ subs' = [subs EXCEPT !.view = subscribeToPosts(posts)]
    /\ UNCHANGED <<posts, now>>
    /\ WatchFrame

\* storage.ts: the listener attached by subscribeToPosts gets a snapshot
SnapshotArrives ==
    /\ backend = "Firestore"
    /\ subs.active
    /\ subs.pending
    /\ subs' = [subs EXCEPT !.view = subscribeToPosts(posts), !.pending = FALSE]
    /\ UNCHANGED <<posts, now>>
    /\ WatchFrame

\* The component is torn down: React runs the cleanup the effect returned;
\* the cancel function is clearInterval(interval) / the listener's unsubscribe
Unmount ==
    /\ subs.mounted
    /\ subs' = [subs EXCEPT !.mounted = FALSE,
                            !.active = IF CleanupCancels(subs.component) THEN FALSE ELSE @,
                            !.pending = IF CleanupCancels(subs.component) THEN FALSE ELSE @]
    /\ UNCHANGED <<posts, now>>
    /\ WatchFrame

NextMount ==
    \/ \E v \in Actors : PostPublished(v)
    \/ TimerFires
    \/ SnapshotArrives
    \/ Unmount

SpecMount == InitMount /\ [][NextMount]_vars

\* C31: once the component is torn down its subscription is cancelled (no
\* timer runs, no listener is attached), and the callback is not invoked in
\* any later step.
C31_CancelledOnTeardown ==
    /\ [](~subs.mounted => ~subs.active)
    /\ [][(TimerFires \/ SnapshotArrives) => subs.mounted]_vars

----------------------------------------------------------------------------
(* C32: what a caller is told when the store rejects a write *)

\* The call of client c returns in this step and reports success
ReturnsOk(c) == calls[c].pc # "done" /\ calls'[c].pc = "done" /\ calls'[c].success

\* C32: a sendFriendRequest that reports success has left the sender in the
\* target's friendRequests, and an acceptFriendRequest that completes has
\* left each user in the other's friends and the announcement in the
\* messages, also when the store rejects writes.
C32_WriteFailureSurfaced ==
    [][\A c \in Clients :
          ReturnsOk(c) =>
              IF calls'[c].op = "sendFriendRequest"
              THEN InRequestsAfter(users[TargetOf(calls'[c].toCustomId)].id, c)
              ELSE /\ InFriendsAfter(c, calls'[c].requesterId)
                   /\ InFriendsAfter(calls'[c].requesterId, c)
                   /\ Len(messages') = Len(messages) + 1]_vars

----------------------------------------------------------------------------
(* C33: login with a handle and a credential *)

\* The credential every user signed up with (User.password in part_000 and
\* part_001, the Firebase Auth password in storage.ts), and what a caller types
StoredPassword == "secret"
Passwords == {"secret", "guess"}

\* What a login leaves behind and tells the caller
LoggedIn(ses, result) == [session |-> ses, result |-> result]

\* part_002 Auth.handleSubmit (login): users.find(u => u.userId === userId &&
\* u.password === password), then onLogin(user) -> setCurrentUser(user)
login_LocalSync(us, ses, userId, password) ==
    LET i == FindIndexByCustomId(us, userId)
    IN  IF i # 0 /\ password = StoredPassword THEN LoggedIn(us[i], "ok")
        ELSE LoggedIn(ses, "Invalid credentials. Please check your User ID and password.")

\* part_001 login: `found` is looked up by userId alone; the lookup that also
\* compares the password is never read
login_LocalAsync(us, ses, userId, password) ==
    LET i == FindIndexByCustomId(us, userId)
    IN  IF i = 0 THEN LoggedIn(ses, "User not found")
        ELSE LoggedIn([id |-> us[i].id], "ok")

\* storage.ts login: signInWithEmailAndPassword rejects an unknown email or a
\* wrong password; once it has signed in, a missing profile document throws
login_Firestore(us, acc, ses, userId, password) ==
    IF ~EmailInUse(acc, getEmailFromId(userId)) THEN LoggedIn(ses, "auth/user-not-found")
    ELSE IF password # StoredPassword THEN LoggedIn(ses, "auth/wrong-password")
    ELSE LET a == CHOOSE i \in 1..Len(acc) : acc[i].email = getEmailFromId(userId)
         IN  LoggedIn([id |-> acc[a].uid],
                      IF DocExists(us, acc[a].uid) THEN "ok" ELSE "User profile not found")

login(us, acc, ses, userId, password) ==
    CASE backend = "LocalSync" -> login_LocalSync(us, ses, userId, password)
      [] backend = "LocalAsync" -> login_LocalAsync(us, ses, userId, password)
      [] backend = "Firestore" -> login_Firestore(us, acc, ses, userId, password)

\* Auth.handleSubmit, login branch, with the credential typed
LoginWith(h, password) ==
    /\ session' = login(users, accounts, session, h, password).session
    /\ UNCHANGED <<backend, users, accounts, issued, posts, messages, now, calls, held, subs>>

NextAuth ==
    \/ \E h \in HandlesOfTrio : Signup(h)
    \/ \E h \in HandlesOfTrio, password \in Passwords : LoginWith(h, password)
    \/ Logout
    \/ \E uid \in CallerIds, h \in HandlesOfTrio : UpdateUser(uid, h)

SpecAuth == Init /\ [][NextAuth]_vars

NotFoundResults ==
    {"User not found", "auth/user-not-found",
     "Invalid credentials. Please check your User ID and password."}
BadCredentialResults ==
    {"auth/wrong-password", "Invalid credentials. Please check your User ID and password."}

\* C33: a login creates a session, bound to the user carrying the handle, and
\* succeeds only when such a user is stored and the credential is the stored
\* one; with an unknown handle it fails as not found, with a wrong credential
\* as a bad credential, and a failed login leaves the session as it was.
C33_LoginChecksCredential ==
    [][\A h \in HandlesOfTrio, password \in Passwords :
          LoginWith(h, password) =>
              LET o == login(users, accounts, session, h, password)
                  i == FindIndexByCustomId(users, h)
              IN  IF i # 0 /\ password = StoredPassword
                  THEN o.result = "ok" /\ session'.id = users[i].id
                  ELSE /\ session' = session
                       /\ i = 0 => o.result \in NotFoundResults
                       /\ i # 0 => o.result \in BadCredentialResults]_vars

----------------------------------------------------------------------------
(* C34: a profile edited while friendships change *)

\* The users whose profile page is open, and the users who send and accept
Editors == {1}
Befrienders == {1, 2}

\* held[c] is profileUser of client c: the record loadProfileData read when
\* the page was opened (Undefined while no page is open)
InitEdit ==
    /\ backend \in Backends
    /\ users = TrioUsers
    /\ accounts = IF backend = "Firestore" THEN TrioAccounts ELSE <<>>
    /\ issued = 3
    /\ posts = IF backend = "LocalSync" THEN SeedPosts ELSE <<>>
    /\ messages = <<>>
    /\ session = NoSession
    /\ now = 0
    /\ calls = <<>>
    /\ held = [c \in Editors |-> Undefined]
    /\ subs = <<>>

\* Profile.loadProfileData: users.find(u => u.id === viewedProfileId)
OpenProfile(c) ==
    /\ DocExists(users, c)
    /\ held' = [held EXCEPT ![c] = DocData(users, c)]
    /\ UNCHANGED <<backend, users, accounts, issued, posts, messages, session, now, calls, subs>>

\* Profile.handleSaveProfile: updatedUser = {...profileUser, name, userId, bio,
\* email} with the handle left as it was, updateUser(updatedUser), and on
\* success setProfileUser(updatedUser)
SaveProfile(c) ==
    /\ held[c] # Undefined
    /\ LET o == updateUser(users, session, held[c])
       IN  users' = o.users /\ session' = o.session
    /\ UNCHANGED <<backend, accounts, issued, posts, messages, now, calls, held, subs>>

NextEdit ==
    \/ \E c \in Editors : OpenProfile(c)
    \/ \E c \in Editors : SaveProfile(c)
    \/ \E fromId \in Befrienders, h \in Handles : SendFriendRequest(fromId, h)
    \/ \E userId \in Befrienders, requesterId \in Befrienders :
           AcceptFriendRequest(userId, requesterId)

SpecEdit == InitEdit /\ [][NextEdit]_vars

\* C34: two users who are friends of each other are still friends of each
\* other after every step, and a profile save removes nothing from the saved
\* user's friends and friendRequests.
C34_FriendsTerminal ==
    [][/\ \A a \in StoredIds, b \in StoredIds :
              (a # b /\ InFriends(a, b) /\ InFriends(b, a)) =>
                  (InFriendsAfter(a, b) /\ InFriendsAfter(b, a))
       /\ \A c \in Editors :
              SaveProfile(c) =>
                  /\ Range(DocData(users, c).friends) \subseteq Range(DocData(users', c).friends)
                  /\ Range(DocData(users, c).friendRequests)
                         \subseteq Range(DocData(users', c).friendRequests)]_vars

-----------------------------------------------------------------------

----------------------------------------------------------------------------
(* C35: what a delete leaves *)

\* deletePost calls a run makes
MaxDeletes == 3

\* AdminPanel.deletePost of stored post i, to its end; calls lists the ids
\* whose deletePost has completed
DeletePostDone(i) ==
    /\ Len(calls) < MaxDeletes
    /\ i \in 1..Len(posts)
    /\ posts' = deletePost(posts, posts[i].id)
    /\ calls' = Append(calls, posts[i].id)
    /\ UNCHANGED <<backend, users, accounts, issued, messages, session, now, held, subs>>

\* Creating and deleting only: no id is written again once it was deleted
NextDelete ==
    \/ \E v \in Actors : CreatePost(v)
    \/ \E i \in 1..MaxPosts : DeletePostDone(i)

SpecDelete == InitFeed /\ [][NextDelete]_vars

\* C35: when deletePost of a stored post's id has completed, no post of that
\* id is stored and the list a subscriber is given holds none.
C35_DeleteRemoves ==
    \A k \in 1..Len(calls) :
        /\ ~IsStored(posts, calls[k])
        /\ ~IsStored(subscribeToPosts(posts), calls[k])

----------------------------------------------------------------------------
(* C36: one stored record per post id *)

\* C36: after any sequence of creations, likes, comments and deletions, no
\* two stored posts carry the same id.
C36_PostIdsUnique ==
    \A i, j \in 1..Len(posts) : i # j => posts[i].id # posts[j].id

----------------------------------------------------------------------------
(* C37: no id twice in a list *)

\* The array holds no value at two indices
NoRepeats(arr) == \A i, j \in 1..Len(arr) : i # j => arr[i] # arr[j]

\* C37: in every reachable state no user's friends list and no user's
\* friendRequests list holds an id more than once.
C37_ListsHaveNoRepeats ==
    \A i \in 1..Len(users) : NoRepeats(users[i].friends) /\ NoRepeats(users[i].friendRequests)

----------------------------------------------------------------------------
(* C38: references to users after an administrative delete *)

\* part_000 AdminPanel.deleteUser: users.filter(u => u.id !== id), saveUsers
deleteUser_LocalSync(us, uid) == LET Kept(u) == u.id # uid IN SelectSeq(us, Kept)

\* part_001 deleteUser: users.filter(u => u.id !== uid), setStored
deleteUser_LocalAsync(us, uid) == LET Kept(u) == u.id # uid IN SelectSeq(us, Kept)

\* storage.ts deleteUser: setDoc(doc(db, 'users', uid), {deleted: true},
\* {merge: true}); the document and its other fields stay
deleteUser_Firestore(us, uid) == us

deleteUser(us, uid) ==
    CASE backend = "LocalSync" -> deleteUser_LocalSync(us, uid)
      [] backend = "LocalAsync" -> deleteUser_LocalAsync(us, uid)
      [] backend = "Firestore" -> deleteUser_Firestore(us, uid)

\* AdminPanel.deleteUser of a listed user; calls lists the ids whose
\* deleteUser has completed
DeleteUser(uid) ==
    /\ calls = <<>>
    /\ DocExists(users, uid)
    /\ users' = deleteUser(users, uid)
    /\ calls' = Append(calls, uid)
    /\ UNCHANGED <<backend, accounts, issued, posts, messages, session, now, held, subs>>

NextAdmin ==
    \/ \E fromId \in CallerIds, h \in HandlesOfTrio : SendFriendRequest(fromId, h)
    \/ \E requesterId \in RequesterIds : AcceptAsCurrentUser(requesterId)
    \/ \E uid \in UserIds : DeleteUser(uid)

SpecAdmin == InitTrio /\ [][NextAdmin]_vars

\* C38: in every reachable state, also after a deleteUser, every id in a
\* stored user's friends or friendRequests, and the id the session is bound
\* to, is the id of a stored user.
C38_NoDanglingUsers ==
    /\ \A i \in 1..Len(users) :
           /\ Range(users[i].friends) \subseteq StoredIds
           /\ Range(users[i].friendRequests) \subseteq StoredIds
    /\ session # NoSession => session.id \in StoredIds

----------------------------------------------------------------------------
(* C39: which user the session is bound to *)

\* C39: an updateUser of a user other than the one the session is bound to,
\* a sendFriendRequest and an acceptFriendRequest leave the id held by the
\* session as it was.
C39_SessionStaysBound ==
    [][/\ \A uid \in CallerIds, h \in Handles :
              (UpdateUser(uid, h) /\ session.id # uid) => session'.id = session.id
       /\ \A fromId \in CallerIds, h \in Handles :
              SendFriendRequest(fromId, h) => session'.id = session.id
       /\ \A userId \in CallerIds, requesterId \in RequesterIds :
              AcceptFriendRequest(userId, requesterId) => session'.id = session.id]_vars

----------------------------------------------------------------------------
(* C40: observeAuth and its subscriber *)

\* Changes of the session a run makes, and the count of callbacks kept
MaxChanges == 2
MaxDelivered == 2

\* subs: seen      part_001: `session`, the stored session read when subscribing
\*       last      the user id the callback was last called with (NoId for null)
\*       delivered the callbacks after the first one (counted up to MaxDelivered)
\*       pending   storage.ts: the auth states whose change has not been
\*                 delivered yet, oldest first
\*       changes   the logins and logouts made so far
InitAuthWatch ==
    /\ backend \in WatchBackends
    /\ users = TrioUsers
    /\ accounts = IF backend = "Firestore" THEN TrioAccounts ELSE <<>>
    /\ issued = 3
    /\ posts = <<>>
    /\ messages = <<>>
    /\ session \in {NoSession} \cup {[id |-> i] : i \in 1..3}
    /\ now = 0
    /\ calls = <<>>
    /\ held = <<>>
    /\ subs = [seen |-> session.id, last |-> session.id, delivered |-> 0,
               pending |-> <<>>, changes |-> 0]

AuthFrame == UNCHANGED <<backend, users, accounts, issued, posts, messages, now, calls, held>>

\* The session is written: part_001 setStored(KEYS.SESSION, id) /
\* removeItem, storage.ts a Firebase sign-in / signOut
SessionWritten(ses) ==
    /\ subs.changes < MaxChanges
    /\ ses # session
    /\ session' = ses
    /\ subs' = [subs EXCEPT !.changes = @ + 1,
                            !.pending = IF backend = "Firestore" THEN Append(@, ses.id) ELSE @]
    /\ AuthFrame

\* login of the user carrying handle h, with its credential
SignIn(h) ==
    /\ login(users, accounts, session, h, StoredPassword).result = "ok"
    /\ SessionWritten(login(users, accounts, session, h, StoredPassword).session)

\* logout
SignOut ==
    /\ session # NoSession
    /\ SessionWritten(NoSession)

\* The callback is called with the user of id uid (null for NoId)
Called(uid) == [subs EXCEPT !.last = uid,
                            !.delivered = IF @ < MaxDelivered THEN @ + 1 ELSE @]

\* part_001 observeAuth: the interval fires; `currentSession !== session`
\* compares with the session read when subscribing
AuthTick ==
    /\ backend = "LocalAsync"
    /\ subs' = IF session.id # subs.seen THEN Called(session.id) ELSE subs
    /\ UNCHANGED session
    /\ AuthFrame

\* storage.ts observeAuth: onAuthStateChanged calls back once per change of
\* the auth state, in the order of the changes
AuthStateChanged ==
    /\ backend = "Firestore"
    /\ subs.pending # <<>>
    /\ subs' = [Called(Head(subs.pending)) EXCEPT !.pending = Tail(@)]
    /\ UNCHANGED session
    /\ AuthFrame

NextAuthWatch ==
    \/ \E h \in HandlesOfTrio : SignIn(h)
    \/ SignOut
    \/ AuthTick
    \/ AuthStateChanged

\* The interval and the auth listener are scheduled fairly
SpecAuthWatch ==
    InitAuthWatch /\ [][NextAuthWatch]_vars /\ WF_vars(AuthTick) /\ WF_vars(AuthStateChanged)

\* C40: on a tick where the stored session is the value last delivered the
\* callback is not called, and once the session stops changing the subscriber
\* ends up called with the session's current value.
C40_NotifiedOnChangeOnly ==
    /\ [][(AuthTick /\ session.id = subs.last) => subs'.delivered = subs.delivered]_vars
    /\ <>[](subs.last = session.id)

====
